---- MODULE Spec2Model ----
(***************************************************************************)
(* Model of the semver requirement evaluator (src/eval.rs).                *)
(*                                                                         *)
(* The evaluator is a set of pure functions over the value types Version,  *)
(* Comparator and VersionReq.  Each function of eval.rs is an operator of  *)
(* the same name, translated branch by branch.  The state machine draws    *)
(* the arguments of one call in Init and applies one entry point to them.  *)
(***************************************************************************)
EXTENDS Integers, Sequences, FiniteSets

(***************************************************************************)
(* Bounds of the model.                                                    *)
(***************************************************************************)
\* major, minor and patch range over 0..MaxNum
MaxNum == 2
\* a multi-clause VersionReq has at most MaxReqLen comparators
MaxReqLen == 2

(***************************************************************************)
(* Value types.                                                            *)
(***************************************************************************)
\* Option<u64>: None is the empty sequence, Some(n) the one-element sequence.
None == <<>>
Some(n) == <<n>>
is_some(o) == o # None
unwrap(o) == o[1]

\* An identifier is its ASCII text, a sequence of byte values; a Prerelease or
\* BuildMetadata is the sequence of its dot-separated identifiers.
EMPTY == <<>>
id_alpha == <<97, 108, 112, 104, 97>>
id_beta == <<98, 101, 116, 97>>
id_1 == <<49>>
id_build == <<98, 117, 105, 108, 100>>

Ops == {"Exact", "Greater", "GreaterEq", "Less", "LessEq", "Tilde", "Caret", "Wildcard"}

\* The prerelease tags the inputs are drawn from, in precedence order:
\* alpha < alpha.1 < alpha.beta < (empty).
PreTags == {EMPTY, <<id_alpha>>, <<id_alpha, id_1>>, <<id_alpha, id_beta>>}
Builds == {EMPTY, <<id_build>>}
Nums == 0..MaxNum
OptNums == {None} \cup {Some(n) : n \in Nums}

Versions == [major : Nums, minor : Nums, patch : Nums, pre : PreTags, build : Builds]

\* Comparators that uphold the invariant patch.is_some() => minor.is_some().
Comparators ==
  {c \in [op : Ops, major : Nums, minor : OptNums, patch : OptNums, pre : PreTags] :
     is_some(c.patch) => is_some(c.minor)}

(***************************************************************************)
(* Precedence order of Prerelease (impl Ord for Prerelease).               *)
(***************************************************************************)
is_ascii_digit(b) == b >= 48 /\ b <= 57
all_digits(s) == \A i \in 1..Len(s) : is_ascii_digit(s[i])

\* Ord::cmp on two byte strings: lexicographic, a proper prefix is Less.
RECURSIVE string_cmp_from(_, _, _)
string_cmp_from(l, r, i) ==
  IF i > Len(l) /\ i > Len(r) THEN "Equal"
  ELSE IF i > Len(l) THEN "Less"
  ELSE IF i > Len(r) THEN "Greater"
  ELSE IF l[i] < r[i] THEN "Less"
  ELSE IF l[i] > r[i] THEN "Greater"
  ELSE string_cmp_from(l, r, i + 1)
string_cmp(l, r) == string_cmp_from(l, r, 1)

\* One identifier against another.
ident_cmp(l, r) ==
  IF all_digits(l) /\ all_digits(r)
    THEN IF Len(l) < Len(r) THEN "Less"
         ELSE IF Len(l) > Len(r) THEN "Greater"
         ELSE string_cmp(l, r)
  ELSE IF all_digits(l) THEN "Less"
  ELSE IF all_digits(r) THEN "Greater"
  ELSE string_cmp(l, r)

RECURSIVE pre_cmp_from(_, _, _)
pre_cmp_from(l, r, i) ==
  IF i > Len(l) THEN (IF i > Len(r) THEN "Equal" ELSE "Less")
  ELSE IF i > Len(r) THEN "Greater"
  ELSE IF ident_cmp(l[i], r[i]) # "Equal" THEN ident_cmp(l[i], r[i])
  ELSE pre_cmp_from(l, r, i + 1)

\* An empty prerelease (a real release) is Greater than every non-empty one.
pre_cmp(l, r) ==
  IF l = EMPTY /\ r = EMPTY THEN "Equal"
  ELSE IF l = EMPTY THEN "Greater"
  ELSE IF r = EMPTY THEN "Less"
  ELSE pre_cmp_from(l, r, 1)

pre_gt(l, r) == pre_cmp(l, r) = "Greater"
pre_lt(l, r) == pre_cmp(l, r) = "Less"
pre_ge(l, r) == pre_cmp(l, r) # "Less"

(***************************************************************************)
(* eval.rs                                                                 *)
(***************************************************************************)
pre_is_compatible(cmp, ver) ==
  /\ cmp.major = ver.major
  /\ cmp.minor = Some(ver.minor)
  /\ cmp.patch = Some(ver.patch)
  /\ cmp.pre # EMPTY

\* Variant of matches_exact that leaves the patch uncompared.
matches_exact_no_patch(cmp, ver) ==
  IF ver.major # cmp.major THEN FALSE
  ELSE IF is_some(cmp.minor) /\ ver.minor # unwrap(cmp.minor) THEN FALSE
  ELSE ver.pre = cmp.pre

\* Variant of matches_exact that compares build metadata like the prerelease.
matches_exact_build(cmp, ver) ==
  IF ver.major # cmp.major THEN FALSE
  ELSE IF is_some(cmp.minor) /\ ver.minor # unwrap(cmp.minor) THEN FALSE
  ELSE IF is_some(cmp.patch) /\ ver.patch # unwrap(cmp.patch) THEN FALSE
  ELSE ver.pre = cmp.pre /\ ver.build = EMPTY

matches_exact(cmp, ver) ==
  IF ver.major # cmp.major THEN FALSE
  ELSE IF is_some(cmp.minor) /\ ver.minor # unwrap(cmp.minor) THEN FALSE
  ELSE IF is_some(cmp.patch) /\ ver.patch # unwrap(cmp.patch) THEN FALSE
  ELSE ver.pre = cmp.pre

\* Variant of matches_greater that skips an unspecified field, as
\* matches_exact does, instead of returning false.
matches_greater_skip_unspecified(cmp, ver) ==
  IF ver.major # cmp.major THEN ver.major > cmp.major
  ELSE IF is_some(cmp.minor) /\ ver.minor # unwrap(cmp.minor)
    THEN ver.minor > unwrap(cmp.minor)
  ELSE IF is_some(cmp.patch) /\ ver.patch # unwrap(cmp.patch)
    THEN ver.patch > unwrap(cmp.patch)
  ELSE pre_gt(ver.pre, cmp.pre)

matches_greater(cmp, ver) ==
  IF ver.major # cmp.major THEN ver.major > cmp.major
  ELSE IF cmp.minor = None THEN FALSE
  ELSE IF ver.minor # unwrap(cmp.minor) THEN ver.minor > unwrap(cmp.minor)
  ELSE IF cmp.patch = None THEN FALSE
  ELSE IF ver.patch # unwrap(cmp.patch) THEN ver.patch > unwrap(cmp.patch)
  ELSE pre_gt(ver.pre, cmp.pre)

matches_less(cmp, ver) ==
  IF ver.major # cmp.major THEN ver.major < cmp.major
  ELSE IF cmp.minor = None THEN FALSE
  ELSE IF ver.minor # unwrap(cmp.minor) THEN ver.minor < unwrap(cmp.minor)
  ELSE IF cmp.patch = None THEN FALSE
  ELSE IF ver.patch # unwrap(cmp.patch) THEN ver.patch < unwrap(cmp.patch)
  ELSE pre_lt(ver.pre, cmp.pre)

\* Variant of matches_tilde with the patch comparison reversed.
matches_tilde_patch_reversed(cmp, ver) ==
  IF ver.major # cmp.major THEN FALSE
  ELSE IF is_some(cmp.minor) /\ ver.minor # unwrap(cmp.minor) THEN FALSE
  ELSE IF is_some(cmp.patch) /\ ver.patch # unwrap(cmp.patch)
    THEN ver.patch < unwrap(cmp.patch)
  ELSE pre_ge(ver.pre, cmp.pre)

\* Variant of matches_tilde without the final prerelease comparison.
matches_tilde_no_pre(cmp, ver) ==
  IF ver.major # cmp.major THEN FALSE
  ELSE IF is_some(cmp.minor) /\ ver.minor # unwrap(cmp.minor) THEN FALSE
  ELSE IF is_some(cmp.patch) /\ ver.patch # unwrap(cmp.patch)
    THEN ver.patch > unwrap(cmp.patch)
  ELSE TRUE

matches_tilde(cmp, ver) ==
  IF ver.major # cmp.major THEN FALSE
  ELSE IF is_some(cmp.minor) /\ ver.minor # unwrap(cmp.minor) THEN FALSE
  ELSE IF is_some(cmp.patch) /\ ver.patch # unwrap(cmp.patch)
    THEN ver.patch > unwrap(cmp.patch)
  ELSE pre_ge(ver.pre, cmp.pre)

\* Variant of matches_caret that lets minor float when patch is unspecified,
\* whatever the major.
matches_caret_minor_floats(cmp, ver) ==
  IF ver.major # cmp.major THEN FALSE
  ELSE IF cmp.minor = None THEN TRUE
  ELSE LET minor == unwrap(cmp.minor) IN
    IF cmp.patch = None
      THEN ver.minor >= minor
    ELSE LET patch == unwrap(cmp.patch) IN
      IF cmp.major > 0 /\ ver.minor # minor THEN ver.minor > minor
      ELSE IF cmp.major > 0 /\ ver.patch # patch THEN ver.patch > patch
      ELSE IF cmp.major = 0 /\ minor > 0 /\ ver.minor # minor THEN FALSE
      ELSE IF cmp.major = 0 /\ minor > 0 /\ ver.patch # patch THEN ver.patch > patch
      ELSE IF cmp.major = 0 /\ minor = 0 /\ (ver.minor # minor \/ ver.patch # patch)
        THEN FALSE
      ELSE pre_ge(ver.pre, cmp.pre)

\* Variant of matches_caret that treats 0.0.p like 0.m.p: patch floats upward.
matches_caret_zero_patch_floats(cmp, ver) ==
  IF ver.major # cmp.major THEN FALSE
  ELSE IF cmp.minor = None THEN TRUE
  ELSE LET minor == unwrap(cmp.minor) IN
    IF cmp.patch = None
      THEN (IF cmp.major > 0 THEN ver.minor >= minor ELSE ver.minor = minor)
    ELSE LET patch == unwrap(cmp.patch) IN
      IF cmp.major > 0 /\ ver.minor # minor THEN ver.minor > minor
      ELSE IF cmp.major > 0 /\ ver.patch # patch THEN ver.patch > patch
      ELSE IF cmp.major = 0 /\ ver.minor # minor THEN FALSE
      ELSE IF cmp.major = 0 /\ ver.patch # patch THEN ver.patch > patch
      ELSE pre_ge(ver.pre, cmp.pre)

matches_caret(cmp, ver) ==
  IF ver.major # cmp.major THEN FALSE
  ELSE IF cmp.minor = None THEN TRUE
  ELSE LET minor == unwrap(cmp.minor) IN
    IF cmp.patch = None
      THEN (IF cmp.major > 0 THEN ver.minor >= minor ELSE ver.minor = minor)
    ELSE LET patch == unwrap(cmp.patch) IN
      IF cmp.major > 0 /\ ver.minor # minor THEN ver.minor > minor
      ELSE IF cmp.major > 0 /\ ver.patch # patch THEN ver.patch > patch
      ELSE IF cmp.major = 0 /\ minor > 0 /\ ver.minor # minor THEN FALSE
      ELSE IF cmp.major = 0 /\ minor > 0 /\ ver.patch # patch THEN ver.patch > patch
      ELSE IF cmp.major = 0 /\ minor = 0 /\ (ver.minor # minor \/ ver.patch # patch)
        THEN FALSE
      ELSE pre_ge(ver.pre, cmp.pre)

\* Variant of matches_impl whose LessEq arm calls matches_greater.
matches_impl_lesseq_greater(cmp, ver) ==
  CASE cmp.op \in {"Exact", "Wildcard"} -> matches_exact(cmp, ver)
    [] cmp.op = "Greater" -> matches_greater(cmp, ver)
    [] cmp.op = "GreaterEq" -> matches_exact(cmp, ver) \/ matches_greater(cmp, ver)
    [] cmp.op = "Less" -> matches_less(cmp, ver)
    [] cmp.op = "LessEq" -> matches_exact(cmp, ver) \/ matches_greater(cmp, ver)
    [] cmp.op = "Tilde" -> matches_tilde(cmp, ver)
    [] cmp.op = "Caret" -> matches_caret(cmp, ver)

matches_impl(cmp, ver) ==
  CASE cmp.op \in {"Exact", "Wildcard"} -> matches_exact(cmp, ver)
    [] cmp.op = "Greater" -> matches_greater(cmp, ver)
    [] cmp.op = "GreaterEq" -> matches_exact(cmp, ver) \/ matches_greater(cmp, ver)
    [] cmp.op = "Less" -> matches_less(cmp, ver)
    [] cmp.op = "LessEq" -> matches_exact(cmp, ver) \/ matches_less(cmp, ver)
    [] cmp.op = "Tilde" -> matches_tilde(cmp, ver)
    [] cmp.op = "Caret" -> matches_caret(cmp, ver)

matches_comparator(cmp, ver) ==
  matches_impl(cmp, ver) /\ (ver.pre = EMPTY \/ pre_is_compatible(cmp, ver))

\* Variant of the first loop that returns after the first comparator.
all_match_first(req, ver, i) ==
  i > Len(req) \/ matches_impl(req[i], ver)

\* Variant of the second loop that returns after the first comparator.
any_compatible_first(req, ver, i) ==
  i <= Len(req) /\ pre_is_compatible(req[i], ver)

\* First loop of matches_req: return false at the first comparator that fails.
RECURSIVE all_match_from(_, _, _)
all_match_from(req, ver, i) ==
  IF i > Len(req) THEN TRUE
  ELSE IF ~matches_impl(req[i], ver) THEN FALSE
  ELSE all_match_from(req, ver, i + 1)

\* Second loop of matches_req: return true at the first compatible comparator.
RECURSIVE any_compatible_from(_, _, _)
any_compatible_from(req, ver, i) ==
  IF i > Len(req) THEN FALSE
  ELSE IF pre_is_compatible(req[i], ver) THEN TRUE
  ELSE any_compatible_from(req, ver, i + 1)

matches_req(req, ver) ==
  IF ~all_match_from(req, ver, 1) THEN FALSE
  ELSE IF ver.pre = EMPTY THEN TRUE
  ELSE any_compatible_from(req, ver, 1)

(***************************************************************************)
(* Inputs.                                                                 *)
(***************************************************************************)
Cmp(op, major, minor, patch, pre) ==
  [op |-> op, major |-> major, minor |-> minor, patch |-> patch, pre |-> pre]

\* The clauses multi-clause requirements are built from.
ReqClauses ==
  { Cmp("GreaterEq", 1, Some(2), Some(0), EMPTY),
    Cmp("GreaterEq", 1, Some(2), Some(0), <<id_alpha>>),
    Cmp("GreaterEq", 1, Some(0), Some(0), <<id_alpha>>),
    Cmp("Less", 2, Some(0), Some(0), EMPTY),
    Cmp("Less", 1, Some(2), Some(1), <<id_alpha, id_beta>>),
    Cmp("Exact", 1, Some(2), Some(0), <<id_alpha, id_1>>),
    Cmp("Caret", 1, None, None, EMPTY),
    Cmp("Tilde", 1, Some(2), None, EMPTY),
    Cmp("Caret", 0, Some(1), Some(2), <<id_alpha>>),
    Cmp("Wildcard", 1, None, None, EMPTY) }

SeqsOfLen(S, n) == [1..n -> S]

\* Every one-clause requirement, and the requirements of 0 or 2..MaxReqLen
\* clauses over ReqClauses.
Reqs ==
  SeqsOfLen(Comparators, 1)
    \cup UNION {SeqsOfLen(ReqClauses, n) : n \in (0..MaxReqLen) \ {1}}

(***************************************************************************)
(* State machine: one call of one entry point.                             *)
(***************************************************************************)
VARIABLES req, ver, fn, idx, out
vars == <<req, ver, fn, idx, out>>

Init ==
  /\ req \in Reqs
  /\ ver \in Versions
  /\ fn = "none"
  /\ idx = 0
  /\ out = FALSE

\* matches_req(&req, &ver)
CallMatchesReq ==
  /\ fn = "none"
  /\ fn' = "matches_req"
  /\ out' = matches_req(req, ver)
  /\ UNCHANGED <<req, ver, idx>>

\* matches_comparator(&req.comparators[i], &ver)
CallMatchesComparator ==
  /\ fn = "none"
  /\ \E i \in 1..Len(req) :
       /\ idx' = i
       /\ out' = matches_comparator(req[i], ver)
  /\ fn' = "matches_comparator"
  /\ UNCHANGED <<req, ver>>

\* matches_impl(&req.comparators[i], &ver)
CallMatchesImpl ==
  /\ fn = "none"
  /\ \E i \in 1..Len(req) :
       /\ idx' = i
       /\ out' = matches_impl(req[i], ver)
  /\ fn' = "matches_impl"
  /\ UNCHANGED <<req, ver>>

Next == CallMatchesReq \/ CallMatchesComparator \/ CallMatchesImpl

Spec == Init /\ [][Next]_vars

(***************************************************************************)
(* Properties.                                                             *)
(***************************************************************************)
\* The comparator a comparator-level call was made on.
cur == req[idx]
CmpCall == fn \in {"matches_impl", "matches_comparator"}
\* The result of the entry point of the recorded call on other arguments.
Apply(c, v) == IF fn = "matches_impl" THEN matches_impl(c, v) ELSE matches_comparator(c, v)
Permutations(n) == {p \in [1..n -> 1..n] : \A i, j \in 1..n : p[i] = p[j] => i = j}
FullySpecified(c) == is_some(c.minor) /\ is_some(c.patch)
\* The numeric fields of the version equal the fully specified ones of c.
TripleTie(c, v) ==
  /\ FullySpecified(c)
  /\ v.major = c.major
  /\ v.minor = unwrap(c.minor)
  /\ v.patch = unwrap(c.patch)

\* C1: matches_req(req, ver) is true iff every comparator of req passes
\* matches_impl against ver, and either ver.pre is empty or some comparator has
\* the version's major, a present minor and patch equal to the version's, and
\* a non-empty pre.
C1_ReqMatchesIff ==
  fn = "matches_req" =>
    out = (/\ \A i \in 1..Len(req) : matches_impl(req[i], ver)
           /\ \/ ver.pre = EMPTY
              \/ \E i \in 1..Len(req) : TripleTie(req[i], ver) /\ req[i].pre # EMPTY)

\* A prerelease version accepted by a two-clause requirement whose first
\* clause is not the one that names the prerelease.
C1_Witness ==
  /\ fn = "matches_req"
  /\ Len(req) = 2
  /\ ver.pre # EMPTY
  /\ ~TripleTie(req[1], ver)
  /\ out

\* C2: with the same fields, the result for GreaterEq is (result for Exact) or
\* (result for Greater), and the result for LessEq is (result for Exact) or
\* (result for Less), for matches_impl and for matches_comparator.
C2_InclusiveIsExactOrStrict ==
  /\ (CmpCall /\ cur.op = "GreaterEq") =>
       out = (Apply([cur EXCEPT !.op = "Exact"], ver)
                \/ Apply([cur EXCEPT !.op = "Greater"], ver))
  /\ (CmpCall /\ cur.op = "LessEq") =>
       out = (Apply([cur EXCEPT !.op = "Exact"], ver)
                \/ Apply([cur EXCEPT !.op = "Less"], ver))

\* matches_comparator accepts a prerelease version for a LessEq clause through
\* its Less half.
C2_Witness ==
  /\ fn = "matches_comparator"
  /\ cur.op = "LessEq"
  /\ ver.pre # EMPTY
  /\ ver.pre # cur.pre
  /\ out

\* C3: for an Exact comparator with minor and patch specified,
\* matches_comparator is true iff major, minor, patch and pre of the version
\* equal the comparator's; build plays no part.
C3_ExactFullySpecified ==
  (fn = "matches_comparator" /\ cur.op = "Exact" /\ FullySpecified(cur)) =>
    out = (TripleTie(cur, ver) /\ ver.pre = cur.pre)

\* An Exact comparator naming a prerelease accepts that version carrying
\* build metadata.
C3_Witness ==
  /\ fn = "matches_comparator"
  /\ cur.op = "Exact"
  /\ FullySpecified(cur)
  /\ ver.pre # EMPTY
  /\ ver.build # EMPTY
  /\ out

\* C4: a version that differs from ver only in build gets the same result
\* from matches_impl, matches_comparator and matches_req.
C4_BuildIgnored ==
  /\ CmpCall => \A b \in Builds : Apply(cur, [ver EXCEPT !.build = b]) = out
  /\ fn = "matches_req" =>
       \A b \in Builds : matches_req(req, [ver EXCEPT !.build = b]) = out

\* A two-clause requirement accepts a version that carries build metadata.
C4_Witness ==
  /\ fn = "matches_req"
  /\ Len(req) = 2
  /\ ver.build # EMPTY
  /\ out

\* C5: matches_req gives the same result on every permutation of the
\* comparators of req.
C5_OrderIrrelevant ==
  fn = "matches_req" =>
    \A p \in Permutations(Len(req)) :
      matches_req([i \in 1..Len(req) |-> req[p[i]]], ver) = out

\* A prerelease version accepted by a requirement of two different clauses,
\* only the second of which names the prerelease.
C5_Witness ==
  /\ fn = "matches_req"
  /\ Len(req) = 2
  /\ req[1] # req[2]
  /\ ver.pre # EMPTY
  /\ ~pre_is_compatible(req[1], ver)
  /\ out

\* C6: a Caret comparator with patch unspecified matches a version with empty
\* prerelease iff the majors are equal and: minor is unspecified, or minor is
\* specified, cmp.major > 0 and ver.minor >= cmp.minor, or minor is specified,
\* cmp.major = 0 and ver.minor = cmp.minor.
C6_CaretPatchUnspecified ==
  (CmpCall /\ cur.op = "Caret" /\ cur.patch = None /\ ver.pre = EMPTY) =>
    out = (/\ ver.major = cur.major
           /\ \/ cur.minor = None
              \/ is_some(cur.minor) /\ cur.major > 0 /\ ver.minor >= unwrap(cur.minor)
              \/ is_some(cur.minor) /\ cur.major = 0 /\ ver.minor = unwrap(cur.minor))

\* ^1.m accepts a version 1.n.p with n > m.
C6_Witness ==
  /\ fn = "matches_comparator"
  /\ cur.op = "Caret"
  /\ cur.patch = None
  /\ is_some(cur.minor)
  /\ cur.major > 0
  /\ ver.pre = EMPTY
  /\ ver.minor > unwrap(cur.minor)
  /\ out

\* C7: a Caret comparator with minor and patch specified and an empty
\* prerelease matches a version with empty prerelease iff the majors are equal
\* and: for cmp.major > 0, (ver.minor, ver.patch) >= (cmp.minor, cmp.patch)
\* lexicographically; for cmp.major = 0 and cmp.minor > 0, the minors are equal
\* and ver.patch >= cmp.patch; for cmp.major = 0 and cmp.minor = 0,
\* ver.minor = 0 and the patches are equal.
C7_CaretFullySpecified ==
  (/\ CmpCall
   /\ cur.op = "Caret"
   /\ FullySpecified(cur)
   /\ cur.pre = EMPTY
   /\ ver.pre = EMPTY) =>
    LET minor == unwrap(cur.minor)
        patch == unwrap(cur.patch)
    IN out = (/\ ver.major = cur.major
              /\ \/ /\ cur.major > 0
                    /\ \/ ver.minor > minor
                       \/ ver.minor = minor /\ ver.patch >= patch
                 \/ /\ cur.major = 0
                    /\ minor > 0
                    /\ ver.minor = minor
                    /\ ver.patch >= patch
                 \/ /\ cur.major = 0
                    /\ minor = 0
                    /\ ver.minor = 0
                    /\ ver.patch = patch)

\* ^0.m.p with m > 0 accepts 0.m.q with q > p.
C7_Witness ==
  /\ fn = "matches_comparator"
  /\ cur.op = "Caret"
  /\ FullySpecified(cur)
  /\ cur.pre = EMPTY
  /\ ver.pre = EMPTY
  /\ cur.major = 0
  /\ unwrap(cur.minor) > 0
  /\ ver.patch > unwrap(cur.patch)
  /\ out

\* C8: a Tilde comparator matches a version, both with empty prerelease, iff
\* the majors are equal, ver.minor = cmp.minor when minor is specified, and
\* ver.patch >= cmp.patch when patch is specified.
C8_Tilde ==
  (CmpCall /\ cur.op = "Tilde" /\ cur.pre = EMPTY /\ ver.pre = EMPTY) =>
    out = (/\ ver.major = cur.major
           /\ is_some(cur.minor) => ver.minor = unwrap(cur.minor)
           /\ is_some(cur.patch) => ver.patch >= unwrap(cur.patch))

\* ~M.m.p accepts M.m.q with q > p.
C8_Witness ==
  /\ fn = "matches_comparator"
  /\ cur.op = "Tilde"
  /\ cur.pre = EMPTY
  /\ ver.pre = EMPTY
  /\ is_some(cur.patch)
  /\ ver.patch > unwrap(cur.patch)
  /\ out

\* C9 as stated: matches_impl accepts a version for a Tilde or Caret
\* comparator only if ver.pre >= cmp.pre in precedence order, in every branch.
C9_PreGateEveryBranch ==
  (fn = "matches_impl" /\ cur.op \in {"Tilde", "Caret"} /\ out) =>
    pre_ge(ver.pre, cur.pre)

\* The branches of matches_tilde and matches_caret that end in the prerelease
\* comparison: the specified numeric fields all equal the version's.
ReachesPreComparison(c, v) ==
  \/ c.op = "Tilde" /\ (c.patch = None \/ v.patch = unwrap(c.patch))
  \/ c.op = "Caret" /\ TripleTie(c, v)

\* C9 amended: matches_impl accepts a version for a Tilde comparator whose
\* patch is unspecified or equal to the version's, or for a Caret comparator
\* whose minor and patch are specified and equal to the version's, only if
\* ver.pre >= cmp.pre; and matches_comparator accepts a version for any Tilde
\* or Caret comparator only if ver.pre >= cmp.pre.
C9_PreGateOnTie ==
  /\ (/\ fn = "matches_impl"
      /\ cur.op \in {"Tilde", "Caret"}
      /\ ReachesPreComparison(cur, ver)
      /\ out) => pre_ge(ver.pre, cur.pre)
  /\ (fn = "matches_comparator" /\ cur.op \in {"Tilde", "Caret"} /\ out) =>
       pre_ge(ver.pre, cur.pre)

\* A Caret comparator naming a prerelease accepts a later prerelease of the
\* same major.minor.patch.
C9_Witness ==
  /\ fn = "matches_impl"
  /\ cur.op = "Caret"
  /\ TripleTie(cur, ver)
  /\ cur.pre # EMPTY
  /\ ver.pre # EMPTY
  /\ ver.pre # cur.pre
  /\ out

\* C10: for Greater (resp. Less): if the majors differ the result is
\* ver.major > cmp.major (resp. <); if the majors are equal and minor is
\* unspecified the result is false; if major and minor tie and patch is
\* unspecified the result is false; if all three fields are specified and tie
\* the result is ver.pre > cmp.pre (resp. <) in precedence order.
C10_StrictCascade ==
  (fn = "matches_impl" /\ cur.op \in {"Greater", "Less"}) =>
    LET gt == cur.op = "Greater" IN
    /\ ver.major # cur.major =>
         out = (IF gt THEN ver.major > cur.major ELSE ver.major < cur.major)
    /\ (ver.major = cur.major /\ cur.minor = None) => ~out
    /\ (/\ ver.major = cur.major
        /\ is_some(cur.minor)
        /\ ver.minor = unwrap(cur.minor)
        /\ cur.patch = None) => ~out
    /\ TripleTie(cur, ver) =>
         out = (IF gt THEN pre_gt(ver.pre, cur.pre) ELSE pre_lt(ver.pre, cur.pre))

\* A Less comparator accepts an earlier prerelease of its own
\* major.minor.patch.
C10_Witness ==
  /\ fn = "matches_impl"
  /\ cur.op = "Less"
  /\ TripleTie(cur, ver)
  /\ cur.pre # EMPTY
  /\ ver.pre # EMPTY
  /\ out

====
